---- MODULE Spec2Model ----
(***************************************************************************)
(* BudgetBuddy: the expense store and its HTTP handlers (server), the       *)
(* aggregation helpers of the charts page (graphs.js), and the dashboard   *)
(* and chat widget of the browser client (chatbot.js).                     *)
(*                                                                         *)
(* Conventions of the model                                                *)
(*   - an amount is a whole number of cents (24.50 is 2450): sums are      *)
(*     exact, the rounding of binary floating point is not modelled;       *)
(*   - a date text "YYYY-MM-DD" is the triple <<YYYY, MM, DD>> of its      *)
(*     digit groups; the text comparison of two such fixed-width texts is  *)
(*     the lexicographic comparison of the triples;                        *)
(*   - a JavaScript Date is a civil date (and hour) in a stated zone; the  *)
(*     client's zone is a whole number of hours east of UTC.               *)
(***************************************************************************)
EXTENDS Integers, Sequences, FiniteSets, TLC

VARIABLES
    rows,       \* server: the expenses table, a set of records with unique id
    seq,        \* server: sqlite_sequence of the table (largest rowid ever used)
    res,        \* server: the response sent by the last request
    expenses,   \* charts page: the list fetched from GET /api/expenses
    clock,      \* charts page: the client's clock (local civil date, hour, zone)
    chart,      \* charts page: what the last helper call returned
    net,        \* client: the fetch calls in flight, each with its phase
    page,       \* dashboard: save button, editingId, and the history of its requests
                \* (issued, allOk, and submit: how the last run of the submit handler went)
    chatWindow  \* chat widget: the elements of #chat-window, in document order

serverVars == <<rows, seq, res>>
chartVars == <<expenses, clock, chart>>
pageVars == <<net, page, chatWindow>>
vars == <<rows, seq, res, expenses, clock, chart, net, page, chatWindow>>

(***************************************************************************)
(* Bounds of the model.                                                    *)
(***************************************************************************)
MaxNewRows == 2      \* rows inserted after the seeding
MaxLen == 3          \* length of the list handed to a charts helper
MaxMonthsBack == 3   \* largest monthsBack tried
MaxDays == 3         \* largest days tried

(***************************************************************************)
(* Calendar.                                                               *)
(***************************************************************************)
IsLeap(y) == (y % 4 = 0 /\ y % 100 # 0) \/ y % 400 = 0

DaysInMonth(y, m) ==
    IF m = 2 THEN (IF IsLeap(y) THEN 29 ELSE 28)
    ELSE IF m \in {4, 6, 9, 11} THEN 30 ELSE 31

\* Text comparison of two YYYY-MM-DD texts (SQLite TEXT collation BINARY).
DateLeq(a, b) ==
    \/ a[1] < b[1]
    \/ a[1] = b[1] /\ a[2] < b[2]
    \/ a[1] = b[1] /\ a[2] = b[2] /\ a[3] <= b[3]

\* new Date(year, monthIndex, 1) with a month outside 1..12: the year is carried.
RECURSIVE NormMonth(_, _)
NormMonth(y, m) ==
    IF m < 1 THEN NormMonth(y - 1, m + 12)
    ELSE IF m > 12 THEN NormMonth(y + 1, m - 12)
    ELSE <<y, m>>

\* Date.prototype.setDate: a day of month outside the month rolls into the
\* neighbouring months.
RECURSIVE SetDate(_, _, _)
SetDate(y, m, dd) ==
    IF dd < 1 THEN
        LET p == NormMonth(y, m - 1) IN SetDate(p[1], p[2], dd + DaysInMonth(p[1], p[2]))
    ELSE IF dd > DaysInMonth(y, m) THEN
        LET n == NormMonth(y, m + 1) IN SetDate(n[1], n[2], dd - DaysInMonth(y, m))
    ELSE <<y, m, dd>>

\* The civil date, h hours after 00:00 of date d (h may be negative).
ShiftHours(d, h) == SetDate(d[1], d[2], d[3] + (h \div 24))

(***************************************************************************)
(* Server: the expenses table.                                             *)
(***************************************************************************)
Row(id, description, amount, category, date) ==
    [id |-> id, description |-> description, amount |-> amount,
     category |-> category, date |-> date]

\* The sample rows inserted into an empty table at start-up.
samples ==
    { Row(1, "Groceries", 2450, "Food", <<2025, 7, 10>>),
      Row(2, "Bus ticket", 275, "Transport", <<2025, 7, 11>>),
      Row(3, "Electricity bill", 6000, "Utilities", <<2025, 7, 5>>),
      Row(4, "Cinema", 1200, "Entertainment", <<2025, 8, 1>>),
      Row(5, "Lunch", 1025, "Food", <<2025, 8, 3>>) }

RECURSIVE SumAmount(_)
\* SQL SUM(amount) over a set of rows (0 stands for the NULL of an empty set,
\* which every caller turns into 0).
SumAmount(S) ==
    IF S = {} THEN 0
    ELSE LET r == CHOOSE x \in S : TRUE IN r.amount + SumAmount(S \ {r})

\* Number(text) of the amount texts the requests of the model carry.
NaN == [nan |-> TRUE, val |-> 0]
Num(v) == [nan |-> FALSE, val |-> v]
Number(text) ==
    CASE text = "12.00" -> Num(1200)
      [] text = "12.50" -> Num(1250)
      [] text = "0" -> Num(0)
      [] text = "-3" -> Num(-300)
      [] OTHER -> NaN            \* "abc", "1.2.3"

\* String.prototype.trim of the texts the requests of the model carry.
Trim(text) ==
    CASE text = "  " -> ""
      [] text = " Tea " -> "Tea"
      [] OTHER -> text

\* /^\d{4}-\d{2}-\d{2}$/ : a payload date is [text |-> <<y, m, d>>, iso |-> ...],
\* iso telling whether its text has that shape ("2025-8-3" has not).
IsoShape(date) == date.iso

NoError == "null"

\* Mutant: the sign of the amount is not tested.
validateExpenseAnySign(payload) ==
    IF payload.description = "" \/ Trim(payload.description) = "" THEN "Description required"
    ELSE IF payload.amount = "undefined" \/ Number(payload.amount).nan
         THEN "Amount must be a positive number"
    ELSE IF payload.category = "" \/ Trim(payload.category) = "" THEN "Category required"
    ELSE IF ~IsoShape(payload.date) THEN "Date required (YYYY-MM-DD)"
    ELSE NoError

validateExpense(payload) ==
    IF payload.description = "" \/ Trim(payload.description) = "" THEN "Description required"
    ELSE IF payload.amount = "undefined" \/ Number(payload.amount).nan
            \/ Number(payload.amount).val <= 0 THEN "Amount must be a positive number"
    ELSE IF payload.category = "" \/ Trim(payload.category) = "" THEN "Category required"
    ELSE IF ~IsoShape(payload.date) THEN "Date required (YYYY-MM-DD)"
    ELSE NoError

\* Mutant: the id is the number of rows plus one (no AUTOINCREMENT sequence).
InsertRowCounted(description, amount, category, date) ==
    /\ rows' = rows \cup {Row(Cardinality(rows) + 1, description, amount, category, date)}
    /\ seq' = seq + 1

\* INSERT INTO expenses(...): AUTOINCREMENT gives the row the id seq + 1.
InsertRow(description, amount, category, date) ==
    /\ rows' = rows \cup {Row(seq + 1, description, amount, category, date)}
    /\ seq' = seq + 1

\* UPDATE expenses SET description, amount, category, date WHERE id = ?
UpdateRow(id, description, amount, category, date) ==
    {IF r.id = id THEN Row(r.id, description, amount, category, date) ELSE r : r \in rows}

\* db.get('SELECT * FROM expenses WHERE id = ?'): the row, NoRow for undefined.
NoRow == Row(0, "", 0, "", <<0, 0, 0>>)
RowById(S, id) == IF \E r \in S : r.id = id THEN CHOOSE r \in S : r.id = id ELSE NoRow

(***************************************************************************)
(* Server: query helpers.                                                  *)
(***************************************************************************)
Min(a, b) == IF a <= b THEN a ELSE b

Range(s) == {s[i] : i \in 1..Len(s)}

\* The digits of a date text read as one number: orders as the text does.
DateKey(d) == d[1] * 10000 + d[2] * 100 + d[3]

RECURSIVE OrderDesc(_, _)
\* ORDER BY <key> DESC over the set S: every sequence SQLite may return. The
\* order of rows with equal keys is not fixed by the statement, so each
\* arrangement of them is a possible result.
OrderDesc(S, key) ==
    IF S = {} THEN {<<>>}
    ELSE LET mx == CHOOSE v \in {key[x] : x \in S} : \A x \in S : key[x] <= v
         IN UNION { {<<x>> \o t : t \in OrderDesc(S \ {x}, key)} :
                    x \in {y \in S : key[y] = mx} }

\* LIMIT n, and Array.prototype.slice(0, n) for n >= 0.
Limit(s, n) == SubSeq(s, 1, Min(n, Len(s)))

\* SELECT * FROM expenses ORDER BY amount DESC LIMIT n
TopQuery(n) == {Limit(s, n) : s \in OrderDesc(rows, [r \in rows |-> r.amount])}

\* SELECT SUM(amount) ... WHERE substr(date,1,7) = ym, then row.s ? Number(row.s) : 0
totalInMonth(ym) == SumAmount({r \in rows : <<r.date[1], r.date[2]>> = ym})

\* Mutant: the end of the range is excluded (date < end).
totalBetweenOpenEnd(start, end) ==
    SumAmount({r \in rows : DateLeq(start, r.date) /\ DateLeq(r.date, end) /\ r.date # end})

\* SELECT SUM(amount) ... WHERE date >= start AND date <= end, then row.s ? ... : 0
totalBetween(start, end) ==
    SumAmount({r \in rows : DateLeq(start, r.date) /\ DateLeq(r.date, end)})

\* SELECT category, SUM(amount) as s FROM expenses GROUP BY category ORDER BY s DESC
CategoryGroups ==
    {[category |-> c, s |-> SumAmount({r \in rows : r.category = c})] :
     c \in {r.category : r \in rows}}

totalsByCategory == OrderDesc(CategoryGroups, [g \in CategoryGroups |-> g.s])

(***************************************************************************)
(* Server: POST, PUT and DELETE /api/expenses, GET /api/download.          *)
(***************************************************************************)
PostExpense(payload) ==
    LET errMsg == validateExpense(payload) IN
    IF errMsg # NoError THEN
        /\ res' = [op |-> "POST", status |-> 400, error |-> errMsg]
        /\ UNCHANGED <<rows, seq>>
    ELSE
        /\ seq < Cardinality(samples) + MaxNewRows
        /\ InsertRow(Trim(payload.description), Number(payload.amount).val,
                     Trim(payload.category), payload.date.text)
        /\ res' = [op |-> "POST", status |-> 200, row |-> RowById(rows', seq')]

\* Mutant: the statement always reports one changed row.
ChangesAlways(id) == 1

\* this.changes of an UPDATE or DELETE ... WHERE id = ?: the rows it touched.
Changes(id) == Cardinality({r \in rows : r.id = id})

PutExpense(id, payload) ==
    LET errMsg == validateExpense(payload) IN
    IF id = 0 THEN
        /\ res' = [op |-> "PUT", status |-> 400, error |-> "Invalid id"]
        /\ UNCHANGED <<rows, seq>>
    ELSE IF errMsg # NoError THEN
        /\ res' = [op |-> "PUT", status |-> 400, error |-> errMsg]
        /\ UNCHANGED <<rows, seq>>
    ELSE IF Changes(id) = 0 THEN
        /\ res' = [op |-> "PUT", status |-> 404, error |-> "Expense not found"]
        /\ UNCHANGED <<rows, seq>>
    ELSE
        /\ rows' = UpdateRow(id, Trim(payload.description), Number(payload.amount).val,
                             Trim(payload.category), payload.date.text)
        /\ res' = [op |-> "PUT", status |-> 200, row |-> RowById(rows', id)]
        /\ UNCHANGED seq

DeleteExpense(id) ==
    IF id = 0 THEN
        /\ res' = [op |-> "DELETE", status |-> 400, error |-> "Invalid id"]
        /\ UNCHANGED <<rows, seq>>
    ELSE IF Changes(id) = 0 THEN
        /\ res' = [op |-> "DELETE", status |-> 404, error |-> "Expense not found"]
        /\ UNCHANGED <<rows, seq>>
    ELSE
        /\ rows' = {r \in rows : r.id # id}
        /\ res' = [op |-> "DELETE", status |-> 200, success |-> TRUE]
        /\ UNCHANGED seq

\* The CSV body: one line per row of SELECT * FROM expenses ORDER BY date DESC.
GetDownload ==
    /\ \E body \in OrderDesc(rows, [r \in rows |-> DateKey(r.date)]) :
           res' = [op |-> "download", status |-> 200, csv |-> body]
    /\ UNCHANGED <<rows, seq>>

(***************************************************************************)
(* Server: POST /api/chat. A message is given by what the handler reads of *)
(* it: whether the lower-cased text includes 'total', 'category', 'top',   *)
(* and the number /top\s+(\d+)/ captures (-1: no match).                   *)
(***************************************************************************)
TopCap == 50
TopDefault == 5

ChatMsg(text, total, category, top, n) ==
    [text |-> text, total |-> total, category |-> category, top |-> top, n |-> n]

\* Mutant: the captured number is used as it is.
TopNUncapped(msg) == IF msg.n = -1 THEN TopDefault ELSE msg.n

\* n of the 'top' branch: 5, or min(50, the captured number).
TopN(msg) == IF msg.n = -1 THEN TopDefault ELSE Min(TopCap, msg.n)

PostChat(msg) ==
    /\ UNCHANGED <<rows, seq>>
    /\ IF msg.text = "" THEN
           res' = [op |-> "chat", status |-> 200, intent |-> "empty"]
       ELSE IF msg.total THEN
           res' = [op |-> "chat", status |-> 200, intent |-> "total",
                   total |-> SumAmount(rows)]
       ELSE IF msg.category THEN
           \* SELECT category, SUM(amount) ... GROUP BY category: the parts of the
           \* reply, in whatever order the statement returns the groups.
           res' = [op |-> "chat", status |-> 200, intent |-> "category",
                   parts |-> CategoryGroups]
       ELSE IF msg.top THEN
           \E top \in TopQuery(TopN(msg)) :
               res' = [op |-> "chat", status |-> 200, intent |-> "top",
                       n |-> TopN(msg), top |-> Limit(top, TopN(msg))]
       ELSE
           res' = [op |-> "chat", status |-> 200, intent |-> "help"]

(***************************************************************************)
(* Server: POST /api/chatbot. A message is given by its lower-cased text   *)
(* and by what the handler's regular expressions make of it: hits, the     *)
(* handlers whose test matches the text; days, the number captured by      *)
(* /last\s+(\d{1,2})\s+days?/; cat, the category captured by the           *)
(* 'spent on' pattern; add, the four captures of the 'add expense'         *)
(* pattern. The server's zone is UTC.                                      *)
(***************************************************************************)
NoAdd == [description |-> "", amount |-> "", category |-> "", date |-> <<0, 0, 0>>]

BotMsg(text, hits, days, cat, add) ==
    [text |-> text, hits |-> hits, days |-> days, cat |-> cat, add |-> add]

AddCaptures(amount) ==
    [description |-> "lunch", amount |-> amount, category |-> "food", date |-> <<2025, 8, 9>>]

\* The handlers of the try block, in the order of the source.
Priority ==
    << "greeting", "monthTotal", "spentOn", "topCategory", "breakdown", "avgDaily",
       "lastDays", "budget", "inflation", "savings", "tip", "addHelp", "addExpense" >>

\* Mutant: the add-expense handler is tried before every other handler.
DispatchAddFirst(msg) ==
    IF "addExpense" \in msg.hits THEN "addExpense"
    ELSE IF \E i \in 1..Len(Priority) : Priority[i] \in msg.hits
    THEN Priority[CHOOSE i \in 1..Len(Priority) :
                      /\ Priority[i] \in msg.hits
                      /\ \A j \in 1..(i - 1) : Priority[j] \notin msg.hits]
    ELSE "fallback"

\* Mutant: the last handler whose test matches produces the reply.
DispatchLast(msg) ==
    IF \E i \in 1..Len(Priority) : Priority[i] \in msg.hits
    THEN Priority[CHOOSE i \in 1..Len(Priority) :
                      /\ Priority[i] \in msg.hits
                      /\ \A j \in (i + 1)..Len(Priority) : Priority[j] \notin msg.hits]
    ELSE "fallback"

\* The first handler whose test matches, "fallback" when none does.
Dispatch(msg) ==
    IF \E i \in 1..Len(Priority) : Priority[i] \in msg.hits
    THEN Priority[CHOOSE i \in 1..Len(Priority) :
                      /\ Priority[i] \in msg.hits
                      /\ \A j \in 1..(i - 1) : Priority[j] \notin msg.hits]
    ELSE "fallback"

Reply(handler, data) == [op |-> "chatbot", status |-> 200, handler |-> handler, data |-> data]

PostChatbot(msg, today) ==
    LET h == Dispatch(msg)
        ym == <<today[1], today[2]>>
    IN
    IF msg.text = "" THEN
        /\ res' = [op |-> "chatbot", status |-> 400, error |-> "Empty message"]
        /\ UNCHANGED <<rows, seq>>
    ELSE IF h = "addExpense" THEN
        LET amount == Number(msg.add.amount) IN
        IF amount.nan THEN
            \* the NaN is bound as NULL: NOT NULL constraint failed, caught below
            /\ res' = [op |-> "chatbot", status |-> 500,
                       error |-> "Chatbot failed to process request"]
            /\ UNCHANGED <<rows, seq>>
        ELSE
            /\ seq < Cardinality(samples) + MaxNewRows
            /\ InsertRow(msg.add.description, amount.val, msg.add.category, msg.add.date)
            /\ res' = Reply(h, RowById(rows', seq'))
    ELSE
        /\ UNCHANGED <<rows, seq>>
        /\ CASE h \in {"greeting", "fallback"} ->
                  \E i \in 1..2 : res' = Reply(h, i)
             [] h = "monthTotal" -> res' = Reply(h, totalInMonth(ym))
             [] h = "spentOn" ->
                  res' = Reply(h, SumAmount({r \in rows : /\ r.category = msg.cat
                                                         /\ <<r.date[1], r.date[2]>> = ym}))
             [] h \in {"topCategory", "tip"} ->
                  IF rows = {} THEN res' = Reply(h, "none")
                  ELSE \E t \in totalsByCategory : res' = Reply(h, t[1])
             [] h = "breakdown" ->
                  IF rows = {} THEN res' = Reply(h, <<>>)
                  ELSE \E t \in totalsByCategory : res' = Reply(h, t)
             [] h = "avgDaily" ->
                  res' = Reply(h, [total |-> totalInMonth(ym), days |-> today[3]])
             [] h = "lastDays" ->
                  LET start == SetDate(today[1], today[2], today[3] - (msg.days - 1))
                  IN res' = Reply(h, [days |-> msg.days, start |-> start, end |-> today,
                                      tot |-> totalBetween(start, today)])
             [] h = "budget" -> res' = Reply(h, totalInMonth(ym))
             [] OTHER -> res' = Reply(h, "text")     \* inflation, savings, addHelp

(***************************************************************************)
(* Requests the model sends.                                               *)
(***************************************************************************)
Date(y, m, d) == [text |-> <<y, m, d>>, iso |-> TRUE]

Payload(description, amount, category, date) ==
    [description |-> description, amount |-> amount, category |-> category, date |-> date]

\* One payload that passes validation (its amount equals the Cinema sample's,
\* its date is later), and one that fails each test of validateExpense.
Payloads ==
    { Payload(" Tea ", "12.00", "Food", Date(2025, 8, 3)),
      Payload("  ", "12.00", "Food", Date(2025, 8, 3)),
      Payload("Tea", "0", "Food", Date(2025, 8, 3)),
      Payload("Tea", "-3", "Food", Date(2025, 8, 3)),
      Payload("Tea", "abc", "Food", Date(2025, 8, 3)),
      Payload("Tea", "undefined", "Food", Date(2025, 8, 3)),
      Payload("Tea", "12.00", "", Date(2025, 8, 3)),
      Payload("Tea", "12.00", "  ", Date(2025, 8, 3)),
      Payload("Tea", "12.00", "Food", [text |-> <<2025, 8, 3>>, iso |-> FALSE]) }

\* The :id of the PUT and DELETE requests: 0 (rejected), the Cinema sample, the
\* first row inserted after the seeding, and an id no row ever has.
Ids == {0, 4, 6, 99}

ChatMessages ==
    { ChatMsg("", FALSE, FALSE, FALSE, -1),
      ChatMsg("total", TRUE, FALSE, FALSE, -1),
      ChatMsg("total of top 3", TRUE, FALSE, TRUE, 3),
      ChatMsg("category", FALSE, TRUE, FALSE, -1),
      ChatMsg("top", FALSE, FALSE, TRUE, -1),
      ChatMsg("hi", FALSE, FALSE, FALSE, -1) }
    \cup {ChatMsg("top N", FALSE, FALSE, TRUE, n) : n \in {0, 2, 60}}

BotMessages ==
    { BotMsg("", {}, -1, "", NoAdd),
      BotMsg("hello", {"greeting"}, -1, "", NoAdd),
      BotMsg("how much did i spend this month", {"monthTotal"}, -1, "", NoAdd),
      BotMsg("how much on food", {"spentOn"}, -1, "food", NoAdd),
      BotMsg("top category", {"topCategory"}, -1, "", NoAdd),
      BotMsg("category breakdown", {"breakdown"}, -1, "", NoAdd),
      BotMsg("average daily", {"avgDaily"}, -1, "", NoAdd),
      BotMsg("suggest a budget of 3000", {"budget", "tip"}, -1, "", NoAdd),
      BotMsg("inflation", {"inflation"}, -1, "", NoAdd),
      BotMsg("best savings", {"savings"}, -1, "", NoAdd),
      BotMsg("tip", {"tip"}, -1, "", NoAdd),
      BotMsg("add expense, lunch, 12.50, food, 2025-08-09", {"addHelp", "addExpense"},
             -1, "", AddCaptures("12.50")),
      BotMsg("readd expense, lunch, 12.50, food, 2025-08-09", {"addExpense"},
             -1, "", AddCaptures("12.50")),
      BotMsg("readd expense, lunch, 0, food, 2025-08-09", {"addExpense"},
             -1, "", AddCaptures("0")),
      BotMsg("readd expense, lunch, 1.2.3, food, 2025-08-09", {"addExpense"},
             -1, "", AddCaptures("1.2.3")),
      BotMsg("what is up", {}, -1, "", NoAdd) }
    \cup {BotMsg("last N days", {"lastDays"}, n, "", NoAdd) : n \in {0, 1, 3}}

\* The server's date when a request is served.
ServerDays == {<<2025, 8, 1>>, <<2025, 8, 3>>}

(***************************************************************************)
(* The server: the table after start-up, and one step per request.         *)
(***************************************************************************)
NoChart == [fn |-> "none"]
NoPage ==
    [saveBtn |-> "enabled", editingId |-> 0, issued |-> 0, allOk |-> TRUE, submit |-> "none"]
NoClock == [date |-> <<2025, 8, 3>>, hour |-> 12, zone |-> 0]

Init ==
    /\ rows = samples
    /\ seq = Cardinality(samples)
    /\ res = [op |-> "none", status |-> 0]
    /\ expenses = <<>>
    /\ clock = NoClock
    /\ chart = NoChart
    /\ net = {}
    /\ page = NoPage
    /\ chatWindow = <<>>

Post == \E payload \in Payloads : PostExpense(payload) /\ UNCHANGED <<chartVars, pageVars>>
Put == \E id \in Ids, payload \in Payloads : PutExpense(id, payload) /\ UNCHANGED <<chartVars, pageVars>>
Delete == \E id \in Ids : DeleteExpense(id) /\ UNCHANGED <<chartVars, pageVars>>
Download == GetDownload /\ UNCHANGED <<chartVars, pageVars>>
Chat == \E msg \in ChatMessages : PostChat(msg) /\ UNCHANGED <<chartVars, pageVars>>
Chatbot ==
    \E msg \in BotMessages, today \in ServerDays :
        PostChatbot(msg, today) /\ UNCHANGED <<chartVars, pageVars>>

Next == Post \/ Put \/ Delete \/ Download \/ Chat \/ Chatbot

Spec == Init /\ [][Next]_vars

(***************************************************************************)
(* The top-N query over stores of any size: the table holds a subset of    *)
(* the samples, or the samples and enough later rows to exceed the cap of  *)
(* the query.                                                              *)
(***************************************************************************)
BigStore ==
    samples \cup {Row(i, "Tea", 100 * i + 1, "Food", <<2025, 8, 3>>) :
                  i \in (Cardinality(samples) + 1)..(TopCap + 1)}

TopStores == (SUBSET samples) \cup {BigStore}

InitTop ==
    /\ rows \in TopStores
    /\ seq = (IF rows = BigStore THEN TopCap + 1 ELSE Cardinality(samples))
    /\ res = [op |-> "none", status |-> 0]
    /\ expenses = <<>>
    /\ clock = NoClock
    /\ chart = NoChart
    /\ net = {}
    /\ page = NoPage
    /\ chatWindow = <<>>

SpecTop == InitTop /\ [][Chat]_vars

(***************************************************************************)
(* Claims about the server.                                                *)
(***************************************************************************)

\* C1: every stored expense record has amount > 0, whatever requests were served.
C1_AmountsPositive == \A r \in rows : r.amount > 0

\* The rows of S whose date lies in [lo, hi], by the digits of the dates.
DatedWithin(S, lo, hi) ==
    {r \in S : DateKey(lo) <= DateKey(r.date) /\ DateKey(r.date) <= DateKey(hi)}

IsLastDays(r) == r.op = "chatbot" /\ r.status = 200 /\ r.handler = "lastDays"

\* C7: totalBetween(start, end) is the sum of amount over exactly the stored
\* records with start <= date <= end, both bounds included; totalBetween(d, d)
\* is the sum of the records dated d; it is 0 when no record matches.
C7_TotalBetween ==
    [][IsLastDays(res') =>
         LET d == res'.data IN
         /\ d.tot = SumAmount(DatedWithin(rows', d.start, d.end))
         /\ d.start = d.end => d.tot = SumAmount({r \in rows' : r.date = d.start})
         /\ DatedWithin(rows', d.start, d.end) = {} => d.tot = 0]_vars

\* C7 witness: a one-day range that holds records, and records outside it.
C7_Witness ==
    /\ IsLastDays(res)
    /\ res.data.start = res.data.end
    /\ res.data.tot > 0
    /\ res.data.tot < SumAmount(rows)

IsTop(r) == r.op = "chat" /\ r.intent = "top"

\* C8: the top-N query returns records by amount descending; of two records of
\* equal amount the one with the later date comes first; of two records of equal
\* amount and date the one with the smaller id comes first.
C8_TopOrder ==
    IsTop(res) =>
        \A i, j \in 1..Len(res.top) : i < j =>
            LET a == res.top[i]  b == res.top[j] IN
            \/ a.amount > b.amount
            \/ a.amount = b.amount /\ DateKey(a.date) > DateKey(b.date)
            \/ a.amount = b.amount /\ a.date = b.date /\ a.id < b.id

\* A 'top N' request that names its number.
TopRequests == {msg \in ChatMessages : msg.text # "" /\ ~msg.total /\ ~msg.category
                                       /\ msg.top /\ msg.n >= 0}

\* C9 as stated: a top-N request for n returns exactly min(n, |records|) records.
C9_TopCountUncapped ==
    [][\A msg \in TopRequests : PostChat(msg) =>
           Len(res'.top) = Min(msg.n, Cardinality(rows))]_vars

\* C9 as amended: a top-N request for n returns exactly min(n, 50, |records|)
\* records of the store, each once, by amount descending: the empty sequence for
\* n = 0, and all records when min(n, 50) is at least the number of records.
C9_TopCount ==
    [][\A msg \in TopRequests : PostChat(msg) =>
           LET top == res'.top IN
           /\ Len(top) = Min(Min(msg.n, TopCap), Cardinality(rows))
           /\ Range(top) \subseteq rows
           /\ \A i, j \in 1..Len(top) : i < j => top[i] # top[j] /\ top[i].amount >= top[j].amount
           /\ msg.n = 0 => top = <<>>
           /\ Min(msg.n, TopCap) >= Cardinality(rows) => Range(top) = rows]_vars

\* C9 witness: a request for more than the cap, answered from a store that holds
\* more rows than the cap.
C9_Witness ==
    /\ IsTop(res)
    /\ Cardinality(rows) > TopCap
    /\ Len(res.top) = TopCap

UniqueIds == \A r1, r2 \in rows : r1.id = r2.id => r1 = r2

\* C10: no two stored records share an id, whatever requests were served, and a
\* successful PUT leaves the id of the updated record and of every other record
\* as it was.
C10_Ids ==
    /\ []UniqueIds
    /\ [][(res'.op = "PUT" /\ res'.status = 200) =>
            /\ {r.id : r \in rows'} = {r.id : r \in rows}
            /\ Cardinality(rows') = Cardinality(rows)
            /\ res'.row \in rows'
            /\ \A r \in rows : r.id # res'.row.id => r \in rows']_vars

\* C10 witness: a successful PUT after a create and a delete.
C10_Witness ==
    /\ res.op = "PUT" /\ res.status = 200 /\ res.row.id = 6
    /\ \A r \in rows : r.id # 4

(***************************************************************************)
(* Claims about the error paths of the expense routes.                     *)
(***************************************************************************)
NoSuchId(id) == \A r \in rows : r.id # id

\* C11 as stated: a PUT or DELETE whose id matches no stored record is answered
\* with 404 and leaves the store unchanged.
C11_NotFoundAlways404 ==
    [][\A id \in Ids : NoSuchId(id) =>
          /\ \A payload \in Payloads :
                 PutExpense(id, payload) => res'.status = 404 /\ rows' = rows
          /\ DeleteExpense(id) => res'.status = 404 /\ rows' = rows]_vars

\* C11: a PUT or DELETE whose id matches no stored record never reports success
\* and leaves the store and the id sequence unchanged; it is answered with 404
\* when the id is a non-zero number and, for PUT, the payload passes
\* validation, and with 400 otherwise.
C11_NotFound ==
    [][\A id \in Ids : NoSuchId(id) =>
          /\ \A payload \in Payloads :
                 PutExpense(id, payload) =>
                     /\ rows' = rows /\ seq' = seq
                     /\ res'.status = (IF id # 0 /\ validateExpense(payload) = NoError
                                       THEN 404 ELSE 400)
          /\ DeleteExpense(id) =>
                 /\ rows' = rows /\ seq' = seq
                 /\ res'.status = (IF id # 0 THEN 404 ELSE 400)]_vars

\* C11 witness: a PUT answered with 404 after the store has changed.
C11_Witness == res.op = "PUT" /\ res.status = 404 /\ rows # samples

\* The payloads the validation is to reject: an amount that is no number or is
\* not positive, a description or category that is empty after trimming, a
\* date that is not of the form YYYY-MM-DD.
BadAmount(payload) ==
    \/ payload.amount = "undefined"
    \/ Number(payload.amount).nan
    \/ Number(payload.amount).val <= 0

BadText(t) == Trim(t) = ""

InvalidPayload(payload) ==
    \/ BadAmount(payload)
    \/ BadText(payload.description)
    \/ BadText(payload.category)
    \/ ~payload.date.iso

Rejected == res'.status = 400 /\ rows' = rows /\ seq' = seq

ServedBy(msg, today) ==
    /\ res'.op = "chatbot"
    /\ res'.status = 200 => res'.handler = Dispatch(msg)
    /\ PostChatbot(msg, today)

\* C13 as stated: GET /api/download, POST /api/chat and POST /api/chatbot, for
\* any message, leave the set of stored records unchanged.
C13_ReadOnlyAlways == [][(Download \/ Chat \/ Chatbot) => rows' = rows]_vars

\* The messages whose only matching pattern is the add-expense one and whose
\* captured amount is a number.
AddsExpense(msg) ==
    /\ msg.text # ""
    /\ msg.hits = {"addExpense"}
    /\ ~Number(msg.add.amount).nan

\* C13: GET /api/download and POST /api/chat leave the stored records
\* unchanged, and so does POST /api/chatbot for every message but one that
\* matches the add-expense pattern alone with a numeric amount: that message
\* inserts exactly one record, with the captured fields, and changes no other.
\* (A step is a request served, and res'.op names the route that served it.)
C13_ReadOnly ==
    [][/\ res'.op \in {"download", "chat"} => rows' = rows /\ seq' = seq
       /\ \A msg \in BotMessages, today \in ServerDays :
              ServedBy(msg, today) =>
                  IF AddsExpense(msg)
                  THEN /\ seq' = seq + 1
                       /\ rows' = rows \cup {Row(seq', msg.add.description,
                                                 Number(msg.add.amount).val,
                                                 msg.add.category, msg.add.date)}
                       /\ \A r \in rows : r.id # seq'
                  ELSE rows' = rows /\ seq' = seq]_vars

\* C13 witness: the assistant has answered a category question after it
\* inserted a record.
C13_Witness ==
    /\ res.op = "chatbot" /\ res.status = 200 /\ res.handler = "spentOn"
    /\ \E r \in rows : r.description = "lunch"

\* The advertised way to add an expense, as the handler reads it (lower case).
Advertised ==
    CHOOSE msg \in BotMessages : msg.text = "add expense, lunch, 12.50, food, 2025-08-09"

\* C14 as stated: the message 'add expense, Lunch, 12.50, Food, 2025-08-09'
\* inserts one new record and is answered with the 'Added expense' reply.
C14_AdvertisedAdds ==
    [][\A today \in ServerDays :
          PostChatbot(Advertised, today) =>
              /\ res'.status = 200 /\ res'.handler = "addExpense"
              /\ Cardinality(rows') = Cardinality(rows) + 1]_vars

Position(h) == CHOOSE i \in 1..Len(Priority) : Priority[i] = h

\* C15: a non-empty message to /api/chatbot gets one response; when it is a
\* reply, it is the reply of the handler that comes first in the order of the
\* source among those whose test matches, and the fallback reply exactly when
\* no test matches; no handler but that first one acts on the store; the only
\* other response is the 500 of the add-expense handler whose insert failed.
C15_FirstMatch ==
    [][\A msg \in BotMessages, today \in ServerDays :
          (msg.text # "" /\ ServedBy(msg, today)) =>
              /\ res'.op = "chatbot" /\ res'.status \in {200, 500}
              /\ res'.status = 200 =>
                     IF msg.hits = {} THEN res'.handler = "fallback"
                     ELSE /\ res'.handler \in msg.hits
                          /\ \A h \in msg.hits : Position(res'.handler) <= Position(h)
              /\ res'.status = 500 =>
                     /\ "addExpense" \in msg.hits
                     /\ \A h \in msg.hits : Position(h) >= Position("addExpense")
              /\ rows' # rows =>
                     \A h \in msg.hits : Position(h) >= Position("addExpense")]_vars

\* C15 witness: the budget handler has answered; its message also matches the
\* test of the later tip handler.
C15_Witness == res.op = "chatbot" /\ res.status = 200 /\ res.handler = "budget"

(***************************************************************************)
(* Charts page (graphs.js): a JavaScript object used as a map is the       *)
(* sequence of its own properties [k, v] in the order of their creation.   *)
(***************************************************************************)
Expense(id, amount, category, date) ==
    [id |-> id, amount |-> amount, category |-> category, date |-> date]

HasOwn(obj, k) == \E i \in 1..Len(obj) : obj[i].k = k

GetOwn(obj, k) == obj[CHOOSE i \in 1..Len(obj) : obj[i].k = k].v

\* obj[k] = v: an own property keeps its place, a new one goes last.
SetOwn(obj, k, v) ==
    IF HasOwn(obj, k)
    THEN [i \in 1..Len(obj) |-> IF obj[i].k = k THEN [k |-> k, v |-> v] ELSE obj[i]]
    ELSE Append(obj, [k |-> k, v |-> v])

\* The array index a property name is, -1 when it is none ("07" and "Food" are none).
ArrayIndex(k) ==
    CASE k = "3" -> 3
      [] k = "7" -> 7
      [] OTHER -> -1

RECURSIVE SortByIndex(_)
\* The properties named by array indices, by ascending index.
SortByIndex(S) ==
    IF S = {} THEN <<>>
    ELSE LET lo == CHOOSE x \in S : \A y \in S : ArrayIndex(x.k) <= ArrayIndex(y.k)
         IN <<lo>> \o SortByIndex(S \ {lo})

\* Object.entries / Object.keys order: the array-index names by ascending index,
\* then the other names in the order of their creation.
ObjectEntries(obj) ==
    SortByIndex({obj[i] : i \in {j \in 1..Len(obj) : ArrayIndex(obj[j].k) >= 0}})
    \o SelectSeq(obj, LAMBDA p : ArrayIndex(p.k) < 0)

RECURSIVE SortDescStable(_)
\* Array.prototype.sort((a,b) => b[1] - a[1]): descending by value, stable.
SortDescStable(s) ==
    IF s = <<>> THEN <<>>
    ELSE LET rest == SortDescStable(Tail(s))
             x == Head(s)
             \* x goes before the first element of the sorted rest that is not larger
             ahead == SelectSeq(rest, LAMBDA p : p.v > x.v)
             behind == SelectSeq(rest, LAMBDA p : p.v <= x.v)
         IN ahead \o <<x>> \o behind

RECURSIVE CategorySums(_, _)
\* The loop of categoryTotals over the expenses from position i on. The name
\* "__proto__" is no own property of sums: sums["__proto__"] reads Object.prototype,
\* which is truthy, the + makes a string of it, and assigning a string to
\* sums["__proto__"] is ignored, so sums is left as it was.
CategorySums(list, sums) ==
    IF list = <<>> THEN sums
    ELSE LET e == Head(list)
             cat == IF e.category = "" THEN "Other" ELSE e.category
         IN IF cat = "__proto__" THEN CategorySums(Tail(list), sums)
            ELSE CategorySums(Tail(list),
                     SetOwn(sums, cat, (IF HasOwn(sums, cat) THEN GetOwn(sums, cat) ELSE 0)
                                       + e.amount))

categoryTotals(list) == SortDescStable(ObjectEntries(CategorySums(list, <<>>)))

(***************************************************************************)
(* Charts page: dates. new Date("YYYY-MM-DD") is 00:00 UTC of that date,   *)
(* or an Invalid Date when the month is not 1..12 or the day not 1..31; a  *)
(* day past the end of its month is left out of the inputs (engines differ *)
(* on it). The clock is [date, hour, zone]: the client's civil date and    *)
(* hour, and its zone in hours east of UTC, taken as constant over the     *)
(* days a helper looks at.                                                 *)
(***************************************************************************)
IsValidDate(d) == d[2] \in 1..12 /\ d[3] \in 1..31

\* getFullYear/getMonth/getDate of new Date(text) in the client's zone.
LocalDateOf(d, zone) == ShiftHours(d, zone)

\* toISOString().slice(0,10) of the instant that is (date, hour) in the zone.
IsoDateOf(date, hour, zone) == ShiftHours(date, hour - zone)

RECURSIVE MonthKeys(_, _, _)
\* The keys created by the first loop of monthlyTotals, for i from i down to 0.
MonthKeys(y, m, i) ==
    IF i < 0 THEN <<>> ELSE <<NormMonth(y, m - i)>> \o MonthKeys(y, m, i - 1)

RECURSIVE ZeroMap(_)
ZeroMap(keys) ==
    IF keys = <<>> THEN <<>> ELSE SetOwn(ZeroMap(SubSeq(keys, 1, Len(keys) - 1)),
                                         keys[Len(keys)], 0)

\* The key of an expense in monthlyTotals: <<year, month>> of its date in the
\* client's zone, <<0, 0>> for the "NaN-NaN" of an Invalid Date.
MonthKeyOf(e, zone) ==
    IF IsValidDate(e.date)
    THEN LET d == LocalDateOf(e.date, zone) IN <<d[1], d[2]>>
    ELSE <<0, 0>>

RECURSIVE AddByKey(_, _, _)
\* for (const e of expenses) { if (key in map) map[key] += Number(e.amount || 0) }
AddByKey(list, map, keyOf) ==
    IF list = <<>> THEN map
    ELSE LET e == Head(list)
             k == keyOf[e]
         IN AddByKey(Tail(list),
                     IF HasOwn(map, k) THEN SetOwn(map, k, GetOwn(map, k) + e.amount) ELSE map,
                     keyOf)

\* labels stand for the pretty month names: each is the <<year, month>> it names.
monthlyTotals(list, monthsBack, now) ==
    LET map == AddByKey(list, ZeroMap(MonthKeys(now.date[1], now.date[2], monthsBack - 1)),
                        [e \in Range(list) |-> MonthKeyOf(e, now.zone)])
    IN [labels |-> [i \in 1..Len(map) |-> map[i].k],
        values |-> [i \in 1..Len(map) |-> map[i].v]]

RECURSIVE DayKeys(_, _)
\* The keys of the first loop of dailyTotals, for i from i down to 0.
DayKeys(now, i) ==
    IF i < 0 THEN <<>>
    ELSE <<IsoDateOf(SetDate(now.date[1], now.date[2], now.date[3] - i), now.hour, now.zone)>>
         \o DayKeys(now, i - 1)

\* labels stand for the pretty day names: each is the date it names. toISOString
\* of an Invalid Date throws a RangeError, which ends the call.
dailyTotals(list, days, now) ==
    IF \E e \in Range(list) : ~IsValidDate(e.date)
    THEN [threw |-> "RangeError", labels |-> <<>>, values |-> <<>>]
    ELSE LET map == AddByKey(list, ZeroMap(DayKeys(now, days - 1)),
                             [e \in Range(list) |-> e.date])
         IN [threw |-> "", labels |-> [i \in 1..Len(map) |-> map[i].k],
             values |-> [i \in 1..Len(map) |-> map[i].v]]

(***************************************************************************)
(* Charts page: the lists GET /api/expenses can return (ORDER BY date      *)
(* DESC, id DESC) and the clocks the helpers are tried with.               *)
(***************************************************************************)
FetchedLists(fields) ==
    LET byDate == {t \in UNION {[1..n -> fields] : n \in 0..MaxLen} :
                   \A i \in 1..(Len(t) - 1) : DateKey(t[i].date) >= DateKey(t[i + 1].date)}
    IN {[i \in 1..Len(t) |-> Expense(Len(t) - i + 1, t[i].amount, t[i].category, t[i].date)] :
        t \in byDate}

\* Category labels validation accepts; the empty one is stored by the assistant's
\* 'add expense' for a category of blanks. "7" and "3" are array-index names,
\* "__proto__" is the one name inherited from Object.prototype that the inputs
\* hold (the others, as "constructor", turn the total into a string).
Categories == {"Food", "Other", "", "7", "3", "__proto__"}

CategoryLists ==
    FetchedLists([amount : {100, 250}, category : Categories, date : {<<2025, 8, 3>>}])

MonthlyLists ==
    FetchedLists([amount : {100, 250}, category : {"Food"},
                  date : {<<2025, 13, 1>>, <<2025, 8, 1>>, <<2025, 7, 31>>, <<2025, 1, 1>>}])

DailyLists ==
    FetchedLists([amount : {100, 250}, category : {"Food"},
                  date : {<<2025, 13, 1>>, <<2025, 8, 1>>, <<2025, 7, 31>>, <<2025, 7, 29>>}])

Zones == {-5, 0, 5}

MonthlyClocks == [date : {<<2025, 8, 15>>, <<2025, 1, 31>>}, hour : {12}, zone : Zones]

DailyClocks == [date : {<<2025, 8, 1>>}, hour : {2, 12, 22}, zone : Zones]

InitCharts(lists, clocks) ==
    /\ rows = samples
    /\ seq = Cardinality(samples)
    /\ res = [op |-> "none", status |-> 0]
    /\ expenses \in lists
    /\ clock \in clocks
    /\ chart = NoChart
    /\ net = {}
    /\ page = NoPage
    /\ chatWindow = <<>>

CategoryChart ==
    /\ chart' = [fn |-> "categoryTotals", entries |-> categoryTotals(expenses)]
    /\ UNCHANGED <<serverVars, expenses, clock, pageVars>>

MonthlyChart ==
    /\ \E monthsBack \in 1..MaxMonthsBack :
           chart' = [fn |-> "monthlyTotals", monthsBack |-> monthsBack,
                     out |-> monthlyTotals(expenses, monthsBack, clock)]
    /\ UNCHANGED <<serverVars, expenses, clock, pageVars>>

DailyChart ==
    /\ \E days \in 1..MaxDays :
           chart' = [fn |-> "dailyTotals", days |-> days,
                     out |-> dailyTotals(expenses, days, clock)]
    /\ UNCHANGED <<serverVars, expenses, clock, pageVars>>

SpecCategory == InitCharts(CategoryLists, {NoClock}) /\ [][CategoryChart]_vars
SpecMonthly == InitCharts(MonthlyLists, MonthlyClocks) /\ [][MonthlyChart]_vars
SpecDaily == InitCharts(DailyLists, DailyClocks) /\ [][DailyChart]_vars

(***************************************************************************)
(* Dashboard (chatbot.js, the app.js part): computeKPIs and the two        *)
(* sparklines of renderSparklines.                                         *)
(***************************************************************************)
DaysBack == 12
SparkMonths == 6

\* d.getMonth() === thisMonth && d.getFullYear() === thisYear, d = new Date(e.date)
InThisMonth(e, now) ==
    /\ IsValidDate(e.date)
    /\ LET d == LocalDateOf(e.date, now.zone) IN d[1] = now.date[1] /\ d[2] = now.date[2]

RECURSIVE DailySumsFrom(_, _, _)
\* dailySums[e.date] = (dailySums[e.date] || 0) + amt, for the records of this month
DailySumsFrom(list, map, now) ==
    IF list = <<>> THEN map
    ELSE LET e == Head(list)
             old == IF HasOwn(map, e.date) THEN GetOwn(map, e.date) ELSE 0
         IN DailySumsFrom(Tail(list),
                          IF InThisMonth(e, now) THEN SetOwn(map, e.date, old + e.amount)
                          ELSE map,
                          now)

computeKPIs(list, now) == [dailySums |-> DailySumsFrom(list, <<>>, now)]

\* d = new Date(); d.setDate(d.getDate() - i): the local date i days ago.
DaysAgo(now, i) == SetDate(now.date[1], now.date[2], now.date[3] - i)

\* d = new Date(); d.setMonth(d.getMonth() - i): the month is moved, the day of
\* the month is kept, and a day the month does not have rolls into the next.
MonthsAgo(now, i) ==
    LET ym == NormMonth(now.date[1], now.date[2] - i)
    IN SetDate(ym[1], ym[2], now.date[3])

RECURSIVE MonthSum(_, _, _)
\* for (const e of expenses) { if (kkey === key) sum += Number(e.amount) || 0 }
MonthSum(list, key, zone) ==
    IF list = <<>> THEN 0
    ELSE (IF MonthKeyOf(Head(list), zone) = key THEN Head(list).amount ELSE 0)
         + MonthSum(Tail(list), key, zone)

\* labels stand for the pretty texts: a day label is the local date it names,
\* a month label the <<year, month>> of the key (the text names the month only).
renderSparklines(list, now) ==
    LET k == computeKPIs(list, now)
        dayOf == [j \in 1..DaysBack |-> DaysAgo(now, DaysBack - j)]
        keyOf == [j \in 1..DaysBack |-> IsoDateOf(dayOf[j], now.hour, now.zone)]
        monthOf == [j \in 1..SparkMonths |->
                       LET d == MonthsAgo(now, SparkMonths - j) IN <<d[1], d[2]>>]
    IN [labels |-> dayOf,
        totals |-> [j \in 1..DaysBack |->
                       IF HasOwn(k.dailySums, keyOf[j]) THEN GetOwn(k.dailySums, keyOf[j])
                       ELSE 0],
        mmLabels |-> monthOf,
        mmTotals |-> [j \in 1..SparkMonths |-> MonthSum(list, monthOf[j], now.zone)]]

SparkLists ==
    FetchedLists([amount : {100, 250}, category : {"Food"},
                  date : {<<2025, 8, 3>>, <<2025, 8, 1>>, <<2025, 7, 31>>, <<2025, 3, 1>>}])

SparkClocks ==
    [date : {<<2025, 8, 3>>, <<2025, 8, 15>>, <<2025, 3, 29>>, <<2025, 5, 30>>, <<2025, 3, 31>>},
     hour : {2, 12, 22}, zone : Zones]

RenderSparklines ==
    /\ chart' = [fn |-> "renderSparklines", out |-> renderSparklines(expenses, clock)]
    /\ UNCHANGED <<serverVars, expenses, clock, pageVars>>

SpecSpark == InitCharts(SparkLists, SparkClocks) /\ [][RenderSparklines]_vars

(***************************************************************************)
(* Claims about the charts helpers.                                        *)
(***************************************************************************)
RECURSIVE SumSeq(_)
SumSeq(s) == IF s = <<>> THEN 0 ELSE Head(s) + SumSeq(Tail(s))

\* The sum of the amounts of the expenses of the list that satisfy keep.
SumWhere(list, keep(_)) ==
    SumSeq([i \in 1..Len(list) |-> IF keep(list[i]) THEN list[i].amount ELSE 0])

\* C2: the totals categoryTotals returns add up to the sum of the amounts of all
\* the records it was given, records without a category included.
C2_Conservation ==
    chart.fn = "categoryTotals" =>
        SumSeq([i \in 1..Len(chart.entries) |-> chart.entries[i].v])
            = SumWhere(expenses, LAMBDA e : TRUE)

\* The label a record is counted under, and the place a label is first met.
LabelOf(e) == IF e.category = "" THEN "Other" ELSE e.category
FirstSeen(label) ==
    CHOOSE i \in 1..Len(expenses) :
        /\ LabelOf(expenses[i]) = label
        /\ \A j \in 1..(i - 1) : LabelOf(expenses[j]) # label

\* C3: categoryTotals returns its pairs by total descending, and two categories
\* of equal total in the order in which they were first met in the input.
C3_Order ==
    chart.fn = "categoryTotals" =>
        \A i, j \in 1..Len(chart.entries) : i < j =>
            LET a == chart.entries[i]  b == chart.entries[j] IN
            \/ a.v > b.v
            \/ a.v = b.v /\ FirstSeen(a.k) < FirstSeen(b.k)

\* Months counted from year 0, and back.
MonthIndex(ym) == ym[1] * 12 + (ym[2] - 1)
MonthAt(ix) == <<ix \div 12, (ix % 12) + 1>>

\* The <<year, month>> written in a record's date text.
WrittenMonth(e) == <<e.date[1], e.date[2]>>

\* C4: monthlyTotals returns monthsBack labels and monthsBack values, for the
\* monthsBack consecutive months that end at the month of the current date, oldest
\* first; every value is >= 0, and 0 for a month no record is dated in.
C4_MonthBuckets ==
    chart.fn = "monthlyTotals" =>
        LET n == chart.monthsBack
            out == chart.out
            cur == MonthIndex(<<clock.date[1], clock.date[2]>>)
        IN /\ Len(out.labels) = n
           /\ Len(out.values) = n
           /\ \A i \in 1..n :
                 /\ out.labels[i] = MonthAt(cur - (n - i))
                 /\ out.values[i] >= 0
                 /\ (\A k \in 1..Len(expenses) : WrittenMonth(expenses[k]) # out.labels[i])
                        => out.values[i] = 0

\* C5: in monthlyTotals every record's amount is added to the bucket of the year
\* and month written in its date text, and to no other; a record of a month outside
\* the window is added to none.
C5_MonthOfRecord ==
    chart.fn = "monthlyTotals" =>
        \A i \in 1..Len(chart.out.labels) :
            chart.out.values[i]
                = SumWhere(expenses, LAMBDA e : WrittenMonth(e) = chart.out.labels[i])

\* Days counted from 0000-03-01 (the civil-date count by 400-year eras).
DayNumber(d) ==
    LET y == IF d[2] <= 2 THEN d[1] - 1 ELSE d[1]
        mp == IF d[2] <= 2 THEN d[2] + 9 ELSE d[2] - 3
    IN 365 * y + (y \div 4) - (y \div 100) + (y \div 400) + ((153 * mp + 2) \div 5) + d[3] - 1

\* C6: dailyTotals returns `days` buckets for the `days` consecutive days that end
\* at the current date, oldest first, and the values add up to the sum of the
\* amounts of exactly the records dated in those days.
C6_DayBuckets ==
    chart.fn = "dailyTotals" =>
        LET n == chart.days
            out == chart.out
            today == DayNumber(clock.date)
        IN /\ out.threw = ""
           /\ Len(out.labels) = n
           /\ Len(out.values) = n
           /\ \A i \in 1..n : DayNumber(out.labels[i]) = today - (n - i)
           /\ SumSeq(out.values)
                 = SumWhere(expenses, LAMBDA e : /\ IsValidDate(e.date)
                                                 /\ DayNumber(e.date) \in (today - n + 1)..today)

(***************************************************************************)
(* Claims about the sparklines of the dashboard.                           *)
(***************************************************************************)
\* C16 as stated: the six buckets of the monthly sparkline are the six
\* consecutive calendar months that end with the current month, whatever the
\* day of the month of the current date.
C16_SixMonths ==
    chart.fn = "renderSparklines" =>
        /\ Len(chart.out.mmLabels) = SparkMonths
        /\ \A j \in 1..SparkMonths :
               chart.out.mmLabels[j] = NormMonth(clock.date[1], clock.date[2] - (SparkMonths - j))

\* C17 as stated: each of the twelve values of the daily sparkline is the sum
\* of the amounts of all the expenses dated that day, the days of the previous
\* calendar month included.
C17_TwelveDays ==
    chart.fn = "renderSparklines" =>
        /\ Len(chart.out.totals) = DaysBack
        /\ \A j \in 1..DaysBack :
               /\ chart.out.labels[j] = DaysAgo(clock, DaysBack - j)
               /\ chart.out.totals[j] =
                      SumSeq([i \in 1..Len(expenses) |->
                                 IF expenses[i].date = chart.out.labels[j]
                                 THEN expenses[i].amount ELSE 0])


(***************************************************************************)
(* Dashboard (chatbot.js, the app.js part): the list `expenses`, the modal *)
(* form and the requests of the page. A fetch in flight is an exchange: it *)
(* is sent, then answered by the server or failed by the network, then the *)
(* code after its await runs. Exchanges are served and received in any     *)
(* order.                                                                  *)
(***************************************************************************)
MaxRequests == 3     \* fetch calls of the page, the initial load included

\* GET /api/expenses without filters: SELECT * ... ORDER BY date DESC, id DESC
\* (the ids of the model stay below 100, so one number orders by both keys).
GetExpenses ==
    /\ \E body \in OrderDesc(rows, [r \in rows |-> DateKey(r.date) * 100 + r.id]) :
           res' = [op |-> "GET", status |-> 200, list |-> body]
    /\ UNCHANGED <<rows, seq>>

NoPayload == Payload("", "", "", [text |-> <<0, 0, 0>>, iso |-> FALSE])
NoResponse == [op |-> "none", status |-> 0]

Exchange(k, req, id, payload) ==
    [k |-> k, req |-> req, id |-> id, payload |-> payload,
     phase |-> "sent", response |-> NoResponse]

Answered(x, response) ==
    (net \ {x}) \cup {[x EXCEPT !.phase = "answered", !.response = response]}

Failed(x) == (net \ {x}) \cup {[x EXCEPT !.phase = "failed", !.response = NoResponse]}

\* res.ok
Ok(response) == response.status \in 200..299

\* parseFloat of the amount texts the form of the model holds: all are plain
\* decimals, which parseFloat reads as Number does, or empty (NaN).
parseFloat(text) == IF text = "" THEN NaN ELSE Number(text)

\* What the user has typed into the modal form.
Form(description, amount, category, date) ==
    [description |-> description, amount |-> amount, category |-> category, date |-> date]

\* A form the server accepts, one the page itself refuses (no description), and
\* one that passes the page's test and fails the server's (negative amount).
Forms ==
    { Form(" Tea ", "12.00", "Food", Date(2025, 8, 3)),
      Form("  ", "12.00", "Food", Date(2025, 8, 3)),
      Form("Tea", "-3", "Food", Date(2025, 8, 3)) }

\* The rows whose edit and delete buttons are clicked: the Cinema sample and
\* the first row created after the seeding.
ClickedIds == {4, 6}

\* renderAll: of what it draws, the number of expenses (renderKPIs) is kept;
\* its sparklines are those of renderSparklines above.
renderAll(list) == [fn |-> "renderAll", count |-> Len(list)]

\* The page after its script has run: the initial loadExpenses() is in flight.
InitPage ==
    /\ rows = samples
    /\ seq = Cardinality(samples)
    /\ res = [op |-> "none", status |-> 0]
    /\ expenses = <<>>
    /\ clock = NoClock
    /\ chart = NoChart
    /\ net = {Exchange(1, "load", 0, NoPayload)}
    /\ page = [NoPage EXCEPT !.issued = 1]
    /\ chatWindow = <<>>

\* addBtn click, onEdit, and the three ways to close the modal.
OpenAdd ==
    /\ page.editingId # 0
    /\ page' = [page EXCEPT !.editingId = 0]
    /\ UNCHANGED <<serverVars, chartVars, net, chatWindow>>

OnEdit ==
    \E id \in ClickedIds :
        /\ \E i \in 1..Len(expenses) : expenses[i].id = id
        /\ page.editingId # id
        /\ page' = [page EXCEPT !.editingId = id]
        /\ UNCHANGED <<serverVars, chartVars, net, chatWindow>>

\* The submit handler of the form, up to its await. A disabled save button
\* submits nothing.
SubmitForm ==
    \E form \in Forms :
        LET payload == Payload(Trim(form.description), form.amount, form.category, form.date)
            amount == parseFloat(form.amount)
        IN
        /\ page.saveBtn = "enabled"
        /\ IF \/ payload.description = ""
              \/ amount.nan \/ amount.val = 0
              \/ payload.category = ""
              \/ ~payload.date.iso
           THEN \* alert('Please fill all fields'); saveBtn.disabled = false
                /\ page' = [page EXCEPT !.saveBtn = "enabled", !.submit = "refused"]
                /\ UNCHANGED <<serverVars, chartVars, net, chatWindow>>
           ELSE /\ page.issued < MaxRequests
                /\ net' = net \cup {Exchange(page.issued + 1,
                                             IF page.editingId # 0 THEN "PUT" ELSE "POST",
                                             page.editingId, payload)}
                /\ page' = [page EXCEPT !.saveBtn = "disabled", !.issued = @ + 1,
                                        !.submit = "sent"]
                /\ UNCHANGED <<serverVars, chartVars, chatWindow>>

\* onDelete, up to its await: the button of a row of the table, confirmed.
OnDelete ==
    \E id \in ClickedIds :
        /\ \E i \in 1..Len(expenses) : expenses[i].id = id
        /\ page.issued < MaxRequests
        /\ net' = net \cup {Exchange(page.issued + 1, "DELETE", id, NoPayload)}
        /\ page' = [page EXCEPT !.issued = @ + 1]
        /\ UNCHANGED <<serverVars, chartVars, chatWindow>>

\* The server handles a request of the page.
Serve ==
    \E x \in net :
        /\ x.phase = "sent"
        /\ CASE x.req = "load" -> GetExpenses
             [] x.req = "POST" -> PostExpense(x.payload)
             [] x.req = "PUT" -> PutExpense(x.id, x.payload)
             [] x.req = "DELETE" -> DeleteExpense(x.id)
        /\ net' = Answered(x, res')
        /\ UNCHANGED <<chartVars, page, chatWindow>>

\* The network fails a fetch, before or after the server has handled it.
Fail ==
    \E x \in net :
        /\ x.phase \in {"sent", "answered"}
        /\ net' = Failed(x)
        /\ UNCHANGED <<serverVars, chartVars, page, chatWindow>>

\* expenses.unshift(created)
Unshift(list, created) == <<created>> \o list

\* expenses.map(x => x.id === updated.id ? updated : x)
MapUpdated(list, updated) ==
    [i \in 1..Len(list) |-> IF list[i].id = updated.id THEN updated ELSE list[i]]

\* expenses.filter(x => String(x.id) !== String(id))
FilterId(list, id) == SelectSeq(list, LAMBDA x : x.id # id)

\* loadExpenses after its await.
LoadDone(x) ==
    IF x.phase = "answered" /\ Ok(x.response)
    THEN /\ expenses' = x.response.list
         /\ chart' = renderAll(expenses')
         /\ UNCHANGED page
    ELSE /\ page' = [page EXCEPT !.allOk = FALSE]
         /\ UNCHANGED <<expenses, chart>>

\* Mutant: the button is re-enabled at the end of the try block, not in a
\* finally block.
SubmitDoneNoFinally(x) ==
    IF x.phase = "answered" /\ Ok(x.response)
    THEN /\ expenses' = (IF x.req = "PUT" THEN MapUpdated(expenses, x.response.row)
                         ELSE Unshift(expenses, x.response.row))
         /\ chart' = renderAll(expenses')
         /\ page' = [page EXCEPT !.editingId = 0, !.saveBtn = "enabled", !.submit = "saved"]
    ELSE /\ page' = [page EXCEPT !.allOk = FALSE, !.submit = "failed"]
         /\ UNCHANGED <<expenses, chart>>

\* The submit handler after its await, its finally block included.
SubmitDone(x) ==
    IF x.phase = "answered" /\ Ok(x.response)
    THEN /\ expenses' = (IF x.req = "PUT" THEN MapUpdated(expenses, x.response.row)
                         ELSE Unshift(expenses, x.response.row))
         /\ chart' = renderAll(expenses')
         /\ page' = [page EXCEPT !.editingId = 0, !.saveBtn = "enabled", !.submit = "saved"]
    ELSE /\ page' = [page EXCEPT !.saveBtn = "enabled", !.allOk = FALSE, !.submit = "failed"]
         /\ UNCHANGED <<expenses, chart>>

\* onDelete after its await.
DeleteDone(x) ==
    IF x.phase = "answered" /\ Ok(x.response)
    THEN /\ expenses' = FilterId(expenses, x.id)
         /\ chart' = renderAll(expenses')
         /\ UNCHANGED page
    ELSE /\ page' = [page EXCEPT !.allOk = FALSE]
         /\ UNCHANGED <<expenses, chart>>

\* The code after the await of a settled fetch runs.
Receive ==
    \E x \in net :
        /\ x.phase \in {"answered", "failed"}
        /\ CASE x.req = "load" -> LoadDone(x)
             [] x.req \in {"POST", "PUT"} -> SubmitDone(x)
             [] x.req = "DELETE" -> DeleteDone(x)
        /\ net' = net \ {x}
        /\ UNCHANGED <<serverVars, clock, chatWindow>>

NextPage == OpenAdd \/ OnEdit \/ SubmitForm \/ OnDelete \/ Serve \/ Fail \/ Receive

SpecPage == InitPage /\ [][NextPage]_vars

SettlePage == Serve \/ Fail

\* Every fetch of the page settles (the server answers, or the network gives
\* up), and the event loop runs the code that waits for a settled fetch.
SpecPageLive == InitPage /\ [][NextPage]_vars /\ WF_vars(SettlePage) /\ WF_vars(Receive)

(***************************************************************************)
(* Claims about the dashboard.                                             *)
(***************************************************************************)
\* C18 as stated: when the initial load and every create, update and delete
\* the page has issued have completed, all of them with success, the list
\* `expenses` holds exactly the records of the store: each once, with the
\* store's field values.
C18_ClientMatchesStore ==
    (net = {} /\ page.allOk) =>
        /\ Range(expenses) = rows
        /\ Len(expenses) = Cardinality(rows)

Submitting == \E x \in net : x.req \in {"POST", "PUT"}

\* C21: the save button is disabled only while a request of the submit handler
\* is in flight; it is enabled when the handler has refused the form, has
\* saved a create or an update, or has seen its request fail; and a disabled
\* button is always enabled again.
C21_SaveButton ==
    /\ [](page.saveBtn = "disabled" <=> Submitting)
    /\ [](page.submit \in {"refused", "saved", "failed"} => page.saveBtn = "enabled")
    /\ (page.saveBtn = "disabled") ~> (page.saveBtn = "enabled")

\* C21 witness: the handler has seen its request fail after an earlier run of
\* it saved a record, and the button is enabled.
C21_Witness ==
    /\ page.submit = "failed" /\ page.saveBtn = "enabled"
    /\ \E i \in 1..Len(expenses) : expenses[i].description = "Tea"

(***************************************************************************)
(* Chat widget (chatbot.js): the elements of #chat-window and the calls of *)
(* sendMessage in flight. An element carries the number n of the call that *)
(* appended it (0: the welcome message); the text of a reply is named by   *)
(* the handler that produced it.                                           *)
(***************************************************************************)
MaxChats == 2        \* calls of sendMessage

Sorry == "Sorry, I could not process that request right now."
NetworkError == "Network error - could not reach the assistant."
Welcome == "Hello - I am your finance assistant."

UserEl(n, text) == [who |-> "user", n |-> n, text |-> text]
TypingEl(n) == [who |-> "typing", n |-> n, text |-> ""]
BotEl(n, text) == [who |-> "bot", n |-> n, text |-> text]

\* el.remove()
RemoveEl(window, el) == SelectSeq(window, LAMBDA e : e # el)

\* What the user submits: nothing, a greeting, a question no handler knows,
\* and a message whose insert fails (500).
ChatTexts == {"", "hello", "what is up", "readd expense, lunch, 1.2.3, food, 2025-08-09"}

MessageOf(txt) == CHOOSE msg \in BotMessages : msg.text = txt

\* A response whose body is not JSON, as the error page of a gateway.
NotJson == [op |-> "gateway", status |-> 200]

IsJson(response) == response.op = "chatbot"

Sent == Cardinality({i \in 1..Len(chatWindow) : chatWindow[i].who = "user"})

InitChat ==
    /\ rows = samples
    /\ seq = Cardinality(samples)
    /\ res = [op |-> "none", status |-> 0]
    /\ expenses = <<>>
    /\ clock = NoClock
    /\ chart = NoChart
    /\ net = {}
    /\ page = NoPage
    /\ chatWindow = <<BotEl(0, Welcome)>>

\* The submit handler of the chat form and sendMessage up to its await.
SubmitChat ==
    \E txt \in ChatTexts :
        IF txt = "" THEN UNCHANGED vars
        ELSE /\ Sent < MaxChats
             /\ chatWindow' = chatWindow \o <<UserEl(Sent + 1, txt), TypingEl(Sent + 1)>>
             /\ net' = net \cup {Exchange(Sent + 1, "chat", 0, MessageOf(txt))}
             /\ UNCHANGED <<serverVars, chartVars, page>>

\* The server handles a message of the widget.
ServeChat ==
    \E x \in net, today \in ServerDays :
        /\ x.phase = "sent"
        /\ PostChatbot(x.payload, today)
        /\ net' = Answered(x, res')
        /\ UNCHANGED <<chartVars, page, chatWindow>>

\* The request is answered by something that is not the server.
Garble ==
    \E x \in net :
        /\ x.phase = "sent"
        /\ net' = Answered(x, NotJson)
        /\ UNCHANGED <<serverVars, chartVars, page, chatWindow>>

\* Mutant: the catch block leaves the typing indicator in place.
OnCatchKeepTyping(window, n) == Append(window, BotEl(n, NetworkError))

\* The catch block of sendMessage.
OnCatch(window, n) == Append(RemoveEl(window, TypingEl(n)), BotEl(n, NetworkError))

\* sendMessage after its awaits: a rejected fetch and a body res.json() cannot
\* parse both end in the catch block.
OnSettled(window, x) ==
    IF x.phase = "answered" /\ IsJson(x.response)
    THEN LET shown == RemoveEl(window, TypingEl(x.k)) IN
         IF Ok(x.response) THEN Append(shown, BotEl(x.k, x.response.handler))
         ELSE Append(shown, BotEl(x.k, Sorry))
    ELSE OnCatch(window, x.k)

ReceiveChat ==
    \E x \in net :
        /\ x.phase \in {"answered", "failed"}
        /\ chatWindow' = OnSettled(chatWindow, x)
        /\ net' = net \ {x}
        /\ UNCHANGED <<serverVars, chartVars, page>>

Settle == ServeChat \/ Garble \/ Fail

NextChat == SubmitChat \/ ServeChat \/ Garble \/ Fail \/ ReceiveChat

SpecChat == InitChat /\ [][NextChat]_vars

\* Every fetch settles (the server answers, or the network gives up), and the
\* event loop runs the code that waits for a settled fetch.
SpecChatLive == InitChat /\ [][NextChat]_vars /\ WF_vars(Settle) /\ WF_vars(ReceiveChat)

(***************************************************************************)
(* Claims about the chat widget.                                           *)
(***************************************************************************)
TypingShown(n) == \E i \in 1..Len(chatWindow) : chatWindow[i] = TypingEl(n)

BotTexts(n) ==
    {i \in 1..Len(chatWindow) : chatWindow[i].who = "bot" /\ chatWindow[i].n = n}

WasSent(n) == \E i \in 1..Len(chatWindow) : chatWindow[i].who = "user" /\ chatWindow[i].n = n

InFlight(n) == \E x \in net : x.k = n

Answers(n) == ~TypingShown(n) /\ Cardinality(BotTexts(n)) = 1

\* C19: every call of sendMessage shows its typing indicator and no bot message
\* while its request is in flight, and once the request has settled (reply,
\* error status, a body that is not JSON, or a failed fetch) its own indicator
\* is gone and exactly one bot message stands for it; every call gets there,
\* and no indicator is left when nothing is in flight.
C19_Settles ==
    /\ [](\A n \in 1..MaxChats :
             WasSent(n) =>
                 IF InFlight(n) THEN TypingShown(n) /\ BotTexts(n) = {}
                 ELSE Answers(n))
    /\ [](net = {} => \A i \in 1..Len(chatWindow) : chatWindow[i].who # "typing")
    /\ \A n \in 1..MaxChats : WasSent(n) ~> Answers(n)

\* C19 witness: two calls were in flight together and both have settled, the
\* first with the could-not-process notice, the second, earlier, in the catch
\* block.
C19_Witness ==
    /\ net = {}
    /\ chatWindow = << BotEl(0, Welcome),
                       UserEl(1, "readd expense, lunch, 1.2.3, food, 2025-08-09"),
                       UserEl(2, "hello"),
                       BotEl(2, NetworkError),
                       BotEl(1, Sorry) >>

\* C20 as stated: the bot messages stand in the chat window in the order of
\* the user messages they answer.
C20_RepliesInOrder ==
    \A i, j \in 1..Len(chatWindow) :
        (i < j /\ chatWindow[i].who = "bot" /\ chatWindow[j].who = "bot")
            => chatWindow[i].n < chatWindow[j].n

====
